---- MODULE Spec2Model ----
(***************************************************************************)
(* Model of apps/vault.py: class VaultHandler.                             *)
(*                                                                         *)
(* The process environment (os.environ), the handler instance and the      *)
(* record of the last call are the state.  Every public or internal        *)
(* method is an operator that computes, from the state before the call     *)
(* and the inputs, the environment after the call, the outcome (a return   *)
(* value or a raised exception), the secret reads issued and the number    *)
(* of login exchanges.  The actions apply these operators.                 *)
(*                                                                         *)
(* Python values: None, a str, or a structured (dict) value are records    *)
(* [t, v].  A Python dict is the sequence of its <<key, value>> items in   *)
(* insertion order, keys distinct.  os.environ is a function from the      *)
(* names that are set to their (string) values.                            *)
(***************************************************************************)
EXTENDS Integers, Sequences, FiniteSets, TLC

VARIABLES os_environ, handler, ret, prev

vars == <<os_environ, handler, ret, prev>>

\* Longest list of paths given to read_path / get_secret.
MaxPaths == 2
\* Largest configuration mapping given to _set_environments.
MaxEntries == 3

----------------------------------------------------------------------------
\* Python values

None == [t |-> "None", v |-> ""]
Str(s) == [t |-> "str", v |-> s]
Dict(s) == [t |-> "dict", v |-> s]

\* Mutant of truthy: `is not None` in place of the truth test.
truthy_not_none(x) == x.t # "None"

\* bool(x) of a Python value: None and "" are falsy.
truthy(x) == x.t # "None" /\ ~(x.t = "str" /\ x.v = "")

\* Python `a or b`.
py_or(a, b) == IF truthy(a) THEN a ELSE b

\* json.dumps of a structured value: the dict {"k": <v>}.
json_dumps(x) == IF x.t = "dict" THEN "{\"k\": \"" \o x.v \o "\"}"
                 ELSE IF x.t = "str" THEN "\"" \o x.v \o "\""
                 ELSE "null"

\* Outcomes of a call.
Return(x) == [kind |-> "return", exc |-> "", value |-> x, names |-> {}]
Raise(e, ns) == [kind |-> "raise", exc |-> e, value |-> None, names |-> ns]

\* Python dicts as item sequences.
keys(d) == {d[i][1] : i \in DOMAIN d}
getitem(d, k) == d[CHOOSE i \in DOMAIN d : d[i][1] = k][2]

RECURSIVE update(_, _)
update(d, e) ==
    IF e = <<>> THEN d
    ELSE LET k == Head(e)[1]
             d1 == IF k \in keys(d)
                   THEN [i \in DOMAIN d |-> IF d[i][1] = k THEN Head(e) ELSE d[i]]
                   ELSE Append(d, Head(e))
         IN update(d1, Tail(e))

\* str.startswith for the keys of the model.
KeySuffixes == {"", "DB", "NONE", "X", "REF"}
startswith(k, p) == \E s \in KeySuffixes : k = p \o s

----------------------------------------------------------------------------
\* os.environ

environ_get(env, name) == IF name \in DOMAIN env THEN Str(env[name]) ELSE None

put(env, k, s) == [x \in DOMAIN env \cup {k} |-> IF x = k THEN s ELSE env[x]]

\* os.environ[key] = value: only str values are accepted.
environ_setitem(env, key, value) ==
    IF value.t = "str"
    THEN [env |-> put(env, key, value.v), out |-> Return(None)]
    ELSE [env |-> env, out |-> Raise("TypeError", {})]

----------------------------------------------------------------------------
\* The module has no binding for the name `logger`: its assignment is
\* commented out, so evaluating `logger` raises NameError.
LoggerBound == FALSE

\* The key/value store behind client.secrets.kv.v2.read_secret.
KV ==
    [p \in {"app/db", "app/cache", "app/legacy-db", "app/opts"} |->
        CASE p = "app/db" -> << <<"DB_USER", Str("a")>>, <<"DB_PASS", Str("b")>> >>
          [] p = "app/cache" -> << <<"CACHE_HOST", Str("h")>>,
                                   <<"VAULT_PATH_X", Str("app/db")>>,
                                   <<"APPNAME", Str("x")>> >>
          [] p = "app/legacy-db" -> << <<"DB_USER", Str("c")>> >>
          [] p = "app/opts" -> << <<"OPTS", Dict("x")>> >>]

Paths == DOMAIN KV \cup {"app/none"}

\* client.secrets.kv.v2.read_secret(path)["data"]["data"]
read_secret(client, path) ==
    IF path \in DOMAIN KV THEN Return(KV[path]) ELSE Raise("InvalidPath", {path})

\* What the login exchange can answer: a token, an empty token, no token
\* (null), or an exception (transport, credentials).
LoginOutcomes == {"token", "empty", "null", "raise"}

\* client.auth.approle.login(...)["auth"]["client_token"]
login_token(lo) ==
    CASE lo = "token" -> Return(Str("s.token"))
      [] lo = "empty" -> Return(Str(""))
      [] lo = "null" -> Return(None)
      [] OTHER -> Raise("LoginError", {})

----------------------------------------------------------------------------
\* VaultHandler.__init__
__init__(url, role_id, secret_id, env) ==
    [role_id |-> py_or(role_id, environ_get(env, "role_id")),
     secret_id |-> py_or(secret_id, environ_get(env, "secret_id")),
     url |-> py_or(url, environ_get(env, "VAULT_ADDR"))]

\* VaultHandler._approle_login: the client, None, or an exception.
_approle_login(self, verify, lo) ==
    LET tok == login_token(lo)
    IN IF tok.kind = "raise" THEN tok
       ELSE IF truthy(tok.value)
       THEN Return([t |-> "client", v |-> "", url |-> self.url,
                    verify |-> verify, token |-> tok.value])
       ELSE IF LoggerBound THEN Return(None) ELSE Raise("NameError", {})

\* VaultHandler._check_hvac_client_login: the client, or None on any exception.
_check_hvac_client_login(self, verify, lo) ==
    LET tok == login_token(lo)
    IN IF tok.kind = "raise" THEN Return(None)
       ELSE Return([t |-> "client", v |-> "", url |-> self.url,
                    verify |-> verify, token |-> tok.value])

\* VaultHandler._check_env_credentials
_check_env_credentials(env) ==
    environ_get(env, "role_id") # None /\ environ_get(env, "secret_id") # None

\* `path if isinstance(path, list) else [path]`
path_list(path) == IF path.list THEN path.items ELSE <<path.items[1]>>

----------------------------------------------------------------------------
\* Mutant of read_path_loop: a path the backend rejects is skipped and the
\* paths after it are still read before the error is raised.
RECURSIVE read_path_loop_continue(_, _, _, _, _)
read_path_loop_continue(client, paths, i, results, reads) ==
    IF i > Len(paths) THEN [out |-> Return(results), reads |-> reads]
    ELSE LET response == read_secret(client, paths[i])
             reads1 == Append(reads, paths[i])
         IN IF response.kind = "raise"
            THEN [out |-> response,
                  reads |-> read_path_loop_continue(client, paths, i + 1,
                                                    results, reads1).reads]
            ELSE LET data == response.value
                 IN IF keys(data) \cap keys(results) # {}
                    THEN [out |-> IF LoggerBound THEN Raise("RuntimeError", {})
                                  ELSE Raise("NameError", {}),
                          reads |-> reads1]
                    ELSE read_path_loop_continue(client, paths, i + 1,
                                                 update(results, data), reads1)

\* VaultHandler.read_path, the loop over the paths: every path is read, its
\* bundle is checked against the keys merged so far and folded in.
RECURSIVE read_path_loop(_, _, _, _, _)
read_path_loop(client, paths, i, results, reads) ==
    IF i > Len(paths) THEN [out |-> Return(results), reads |-> reads]
    ELSE LET response == read_secret(client, paths[i])
             reads1 == Append(reads, paths[i])
         IN IF response.kind = "raise" THEN [out |-> response, reads |-> reads1]
            ELSE LET data == response.value
                 IN IF keys(data) \cap keys(results) # {}
                    THEN [out |-> IF LoggerBound THEN Raise("RuntimeError", {})
                                  ELSE Raise("NameError", {}),
                          reads |-> reads1]
                    ELSE read_path_loop(client, paths, i + 1,
                                        update(results, data), reads1)

\* VaultHandler.read_path, `for key, value in results.items(): os.environ[key] = value`
RECURSIVE read_path_environ(_, _, _)
read_path_environ(env, results, i) ==
    IF i > Len(results) THEN [env |-> env, out |-> Return(None)]
    ELSE LET w == environ_setitem(env, results[i][1], results[i][2])
         IN IF w.out.kind = "raise" THEN w
            ELSE read_path_environ(w.env, results, i + 1)

\* VaultHandler.read_path
read_path(self, env, path, environ, verify, lo) ==
    IF ~_check_env_credentials(env)
    THEN [env |-> env, reads |-> <<>>, logins |-> 0,
          out |-> IF LoggerBound THEN Raise("RuntimeError", {})
                  ELSE Raise("NameError", {})]
    ELSE
    LET login == _approle_login(self, verify, lo)
        client == login.value
    IN IF login.kind = "raise"
       THEN [env |-> env, reads |-> <<>>, logins |-> 1, out |-> login]
       ELSE IF client.t = "None"
       THEN [env |-> env, reads |-> <<>>, logins |-> 1,
             out |-> Raise("AttributeError", {})]
       ELSE IF ~truthy(client.token)
       THEN [env |-> env, reads |-> <<>>, logins |-> 1,
             out |-> IF LoggerBound THEN Raise("RuntimeError", {})
                     ELSE Raise("NameError", {})]
       ELSE
       LET merged == read_path_loop(client, path_list(path), 1, <<>>, <<>>)
       IN IF merged.out.kind = "raise"
          THEN [env |-> env, reads |-> merged.reads, logins |-> 1,
                out |-> merged.out]
          ELSE IF environ
          THEN LET w == read_path_environ(env, merged.out.value, 1)
               IN [env |-> w.env, reads |-> merged.reads, logins |-> 1,
                   out |-> IF w.out.kind = "raise" THEN w.out ELSE merged.out]
          ELSE [env |-> env, reads |-> merged.reads, logins |-> 1,
                out |-> merged.out]

----------------------------------------------------------------------------
\* VaultHandler.get_secret, the loop over the paths: a duplicate key ends the
\* loop with (False, {"errors": ...}), the message listing the duplicated keys.
RECURSIVE get_secret_loop(_, _, _, _, _)
get_secret_loop(client, secret_list, i, result_dict, reads) ==
    IF i > Len(secret_list)
    THEN [out |-> Return([ok |-> TRUE, dict |-> result_dict]), reads |-> reads]
    ELSE LET read_secret_result == read_secret(client, secret_list[i])
             reads1 == Append(reads, secret_list[i])
         IN IF read_secret_result.kind = "raise"
            THEN [out |-> read_secret_result, reads |-> reads1]
            ELSE LET dict_with_secrets == read_secret_result.value
                     duplicated_keys == keys(dict_with_secrets) \cap keys(result_dict)
                 IN IF duplicated_keys # {}
                    THEN [out |-> [kind |-> "return", exc |-> "",
                                   value |-> [ok |-> FALSE,
                                              dict |-> << <<"errors", Str("duplicated key while dict update duplicated keys")>> >>],
                                   names |-> duplicated_keys],
                          reads |-> reads1]
                    ELSE get_secret_loop(client, secret_list, i + 1,
                                         update(result_dict, dict_with_secrets), reads1)

\* VaultHandler.get_secret
get_secret(self, env, path, lo) ==
    IF ~LoggerBound
    THEN [env |-> env, reads |-> <<>>, logins |-> 0, out |-> Raise("NameError", {})]
    ELSE IF ~_check_env_credentials(env)
    THEN [env |-> env, reads |-> <<>>, logins |-> 0, out |-> Raise("ValueError", {})]
    ELSE
    LET client == _check_hvac_client_login(self, FALSE, lo).value
    IN IF client.t = "None"
       THEN [env |-> env, reads |-> <<>>, logins |-> 1,
             out |-> Raise("AttributeError", {})]
       ELSE IF ~truthy(client.token)
       THEN [env |-> env, reads |-> <<>>, logins |-> 1, out |-> Raise("ValueError", {})]
       ELSE LET got == get_secret_loop(client, path_list(path), 1, <<>>, <<>>)
            IN [env |-> env, reads |-> got.reads, logins |-> 1, out |-> got.out]

----------------------------------------------------------------------------
\* VaultHandler._set_environments, `for secret in secrets.keys()`: a resolved
\* key is written unless it is already set.
RECURSIVE set_secrets(_, _, _, _)
set_secrets(env, secrets, j, key) ==
    IF j > Len(secrets) THEN [env |-> env, out |-> Return(None)]
    ELSE LET secret == secrets[j][1]
         IN IF secret \notin DOMAIN env
            THEN LET w == environ_setitem(env, secret, secrets[j][2])
                 IN IF w.out.kind = "raise" THEN w
                    ELSE set_secrets(w.env, secrets, j + 1, key)
            ELSE [env |-> env, out |-> Raise("Exception", {key, secret})]

\* Mutant of set_entry: no test of `key not in os.environ`, the entry is
\* written over whatever is set.
set_entry_overwrite(env, key, value) ==
    [env |-> put(env, key, IF value.t = "str" THEN value.v ELSE json_dumps(value)),
     out |-> Return(None)]

\* Mutant of set_entry: no `except TypeError`, a value that is no str makes
\* the call fail.
set_entry_no_except(env, key, value) ==
    IF key \notin DOMAIN env THEN environ_setitem(env, key, value)
    ELSE [env |-> env, out |-> Raise("Exception", {key})]

\* VaultHandler._set_environments, the try block: the entry itself is written
\* unless its key is already set; a value that is no str is stored as its
\* json.dumps.
set_entry(env, key, value) ==
    IF key \notin DOMAIN env
    THEN LET w == environ_setitem(env, key, value)
         IN IF w.out.kind = "raise" /\ w.out.exc = "TypeError"
            THEN [env |-> put(env, key, json_dumps(value)), out |-> Return(None)]
            ELSE w
    ELSE [env |-> env, out |-> Raise("Exception", {key})]

\* VaultHandler._set_environments, the loop over env.keys().  st is the
\* running [env, reads, logins, calls, at]: the environment, the secret reads
\* and login exchanges issued so far, the number of get_secret calls, and the
\* index of the entry at which an exception left the loop (0: none).
RECURSIVE set_environments_loop(_, _, _, _, _)

\* The end of one turn of the loop: w is the outcome of the try block.
set_environments_next(self, env, i, st, lo, w) ==
    IF w.out.kind = "raise"
    THEN [st EXCEPT !.env = w.env, !.out = w.out, !.at = i]
    ELSE set_environments_loop(self, env, i + 1, [st EXCEPT !.env = w.env], lo)

\* The try block of one turn, entered unless the marker branch raised:
\* resolved is the outcome of the marker branch (nothing done for a plain key).
set_environments_try(self, env, i, st, lo, resolved) ==
    IF resolved.out.kind = "raise"
    THEN [st EXCEPT !.env = resolved.env, !.out = resolved.out, !.at = i]
    ELSE set_environments_next(self, env, i, st, lo,
             set_entry(resolved.env, env[i][1], env[i][2]))

\* The marker branch of one turn: got is the outcome of get_secret(value).
set_environments_marker(self, env, i, st, lo, got) ==
    set_environments_try(self, env, i,
        [st EXCEPT !.reads = st.reads \o got.reads,
                   !.logins = st.logins + got.logins,
                   !.calls = st.calls + 1],
        lo,
        IF got.out.kind = "raise" THEN [env |-> st.env, out |-> got.out]
        ELSE IF got.out.value.ok
        THEN set_secrets(st.env, got.out.value.dict, 1, env[i][1])
        ELSE [env |-> st.env, out |-> Raise("Exception", {env[i][1]})])

set_environments_loop(self, env, i, st, lo) ==
    IF i > Len(env) THEN [st EXCEPT !.out = Return(None)]
    ELSE IF startswith(env[i][1], "VAULT_PATH_")
    THEN set_environments_marker(self, env, i, st, lo,
             get_secret(self, st.env, [list |-> FALSE, items |-> <<env[i][2].v>>], lo))
    ELSE set_environments_try(self, env, i, st, lo,
             [env |-> st.env, out |-> Return(None)])

\* Mutant of _set_environments: the writes of a pass that fails are undone.
_set_environments_rollback(self, os_env, env, lo) ==
    LET r == set_environments_loop(self, env, 1,
                [env |-> os_env, reads |-> <<>>, logins |-> 0, calls |-> 0,
                 at |-> 0, out |-> Return(None)], lo)
    IN IF r.out.kind = "raise" THEN [r EXCEPT !.env = os_env] ELSE r

\* VaultHandler._set_environments
_set_environments(self, os_env, env, lo) ==
    set_environments_loop(self, env, 1,
        [env |-> os_env, reads |-> <<>>, logins |-> 0, calls |-> 0, at |-> 0,
         out |-> Return(None)], lo)

----------------------------------------------------------------------------
\* The str methods get_config_path uses, on the strings of the model.

\* s.split("/")[-1]
split_last(s) ==
    IF \E d \in {"jobs/"}, b \in {"etl.py", "etl"} : s = d \o b
    THEN CHOOSE b \in {"etl.py", "etl"} : \E d \in {"jobs/"} : s = d \o b
    ELSE s

\* s.replace(".py", "")
replace_py(s) ==
    IF \E r \in {"etl"} : s = r \o ".py"
    THEN CHOOSE r \in {"etl"} : s = r \o ".py"
    ELSE s

\* s.upper()
upper(s) == CASE s = "etl" -> "ETL" [] s = "dev" -> "DEV" [] OTHER -> s

\* VaultHandler.get_config_path: the reads, login exchanges and get_secret
\* calls of the whole call are those of its own get_secret followed by those
\* of _set_environments.
get_config_path_result(got, m) ==
    [m EXCEPT !.reads = got.reads \o m.reads,
              !.logins = got.logins + m.logins,
              !.calls = m.calls + 1]

\* VaultHandler.get_config_path, the end: the configuration read at
\* DECONFPATH is handed to _set_environments.  got is the outcome of the
\* get_secret call, env the environment it ran in.
get_config_path_apply(self, env, got, lo) ==
    IF got.out.kind = "raise"
    THEN [env |-> env, reads |-> got.reads, logins |-> got.logins,
          calls |-> 1, at |-> 0, out |-> got.out]
    ELSE IF got.out.value.ok
    THEN get_config_path_result(
             got, _set_environments(self, env, got.out.value.dict, lo))
    ELSE [env |-> env, reads |-> got.reads, logins |-> got.logins,
          calls |-> 1, at |-> 0, out |-> Raise("Exception", {env["DECONFPATH"]})]

\* VaultHandler.get_config_path, `self.get_secret(os.environ["DECONFPATH"])`
\* and what follows it.
get_config_path_read(self, env, lo) ==
    get_config_path_apply(self, env,
        get_secret(self, env, [list |-> FALSE, items |-> <<env["DECONFPATH"]>>], lo),
        lo)

\* VaultHandler.get_config_path after APPNAME is set: DECONFPATH is taken from
\* the environment, or derived from `env` and APPNAME.
get_config_path_locate(self, env, lo) ==
    IF "DECONFPATH" \in DOMAIN env THEN get_config_path_read(self, env, lo)
    ELSE IF "env" \in DOMAIN env
    THEN get_config_path_read(self,
             put(env, "DECONFPATH",
                 "dataeng/config/" \o upper(env["env"]) \o "/" \o env["APPNAME"]),
             lo)
    ELSE [env |-> env, reads |-> <<>>, logins |-> 0, calls |-> 0, at |-> 0,
          out |-> Raise("Exception", {})]

\* VaultHandler.get_config_path.  calls counts the get_secret calls, its own
\* included.
get_config_path(self, os_env, argv0, lo) ==
    IF ~LoggerBound
    THEN [env |-> os_env, reads |-> <<>>, logins |-> 0, calls |-> 0, at |-> 0,
          out |-> Raise("NameError", {})]
    ELSE get_config_path_locate(
             self, put(os_env, "APPNAME", upper(replace_py(split_last(argv0)))), lo)

----------------------------------------------------------------------------
\* Inputs of the calls.

\* Sequences over S of length at most n.
RECURSIVE SeqsUpTo(_, _)
SeqsUpTo(S, n) ==
    IF n = 0 THEN {<<>>}
    ELSE LET shorter == SeqsUpTo(S, n - 1)
         IN shorter \cup {Append(q, x) : q \in shorter, x \in S}

\* The `path` argument: a str, or a list of at most MaxPaths paths.
PathArgs ==
    {[list |-> FALSE, items |-> <<p>>] : p \in Paths}
    \cup {[list |-> TRUE, items |-> q] : q \in SeqsUpTo(Paths, MaxPaths)}

\* The entries a configuration mapping is made of.
ConfigEntries ==
    { <<"APP_MODE", Str("m")>>, <<"DB_USER", Str("z")>>, <<"DB_USER", Dict("z")>>,
      <<"VAULT_PATH_DB", Str("app/db")>>, <<"VAULT_PATH_NONE", Str("app/none")>>,
      <<"VAULT_PATH_REF", Str("app/cache")>> }

\* Configuration mappings: at most MaxEntries entries, keys distinct.
ConfigMappings ==
    {q \in SeqsUpTo(ConfigEntries, MaxEntries) :
        \A i, j \in DOMAIN q : i # j => q[i][1] # q[j][1]}

\* The constructor arguments.
CtorArgs ==
    { [url |-> Str("https://vault"), role_id |-> None, secret_id |-> None],
      [url |-> None, role_id |-> Str("rx"), secret_id |-> Str("sx")] }

\* The environments the process may start with.
InitEnvs ==
    { <<>>,
      [k \in {"role_id"} |-> "r"],
      [k \in {"role_id", "secret_id"} |-> IF k = "role_id" THEN "r" ELSE "s"],
      [k \in {"role_id", "secret_id", "env"} |->
          CASE k = "role_id" -> "r" [] k = "secret_id" -> "s" [] OTHER -> "dev"],
      [k \in {"role_id", "secret_id", "DECONFPATH"} |->
          CASE k = "role_id" -> "r" [] k = "secret_id" -> "s" [] OTHER -> "app/cache"] }

\* sys.argv[0]
Argv0s == {"jobs/etl.py", "etl"}

\* The record of a call: its inputs, the environment before it, its outcome,
\* the secret reads and login exchanges it issued, the get_secret calls it made.
Idle ==
    [op |-> "idle", path |-> [list |-> TRUE, items |-> <<>>], cfg |-> <<>>,
     environ |-> FALSE, lo |-> "token", before |-> <<>>,
     out |-> Return(None), reads |-> <<>>, logins |-> 0, calls |-> 0, at |-> 0,
     argv0 |-> ""]

\* What is kept of the call before the last one: only a _set_environments call
\* that returned is remembered.
NoPrev == [op |-> "none", cfg |-> <<>>, before |-> <<>>, kind |-> "return"]

----------------------------------------------------------------------------
\* Actions.  The program is single-threaded and synchronous: a call starts
\* when the caller holds no pending result (ret.op = "idle"), and Resume is
\* the caller taking the result (or the exception) of the call that ended.

Init ==
    /\ os_environ \in InitEnvs
    /\ \E a \in CtorArgs : handler = __init__(a.url, a.role_id, a.secret_id, os_environ)
    /\ ret = Idle
    /\ prev = NoPrev

\* VaultHandler(url, role_id, secret_id)
Construct ==
    /\ ret.op = "idle"
    /\ \E a \in CtorArgs :
           handler' = __init__(a.url, a.role_id, a.secret_id, os_environ)
    /\ prev' = NoPrev
    /\ UNCHANGED <<os_environ, ret>>

\* handler.read_path(path, environ, verify)
ReadPath ==
    /\ ret.op = "idle"
    /\ \E path \in PathArgs, environ \in BOOLEAN, verify \in BOOLEAN,
          lo \in LoginOutcomes :
        LET r == read_path(handler, os_environ, path, environ, verify, lo)
        IN /\ os_environ' = r.env
           /\ ret' = [Idle EXCEPT
                         !.op = "read_path",
                         !.path = path, !.environ = environ, !.lo = lo,
                         !.before = os_environ, !.out = r.out,
                         !.reads = r.reads, !.logins = r.logins]
    /\ UNCHANGED <<handler, prev>>

\* handler.get_secret(path)
GetSecret ==
    /\ ret.op = "idle"
    /\ \E path \in PathArgs, lo \in LoginOutcomes :
        LET r == get_secret(handler, os_environ, path, lo)
        IN /\ os_environ' = r.env
           /\ ret' = [Idle EXCEPT
                         !.op = "get_secret",
                         !.path = path, !.lo = lo,
                         !.before = os_environ, !.out = r.out,
                         !.reads = r.reads, !.logins = r.logins]
    /\ UNCHANGED <<handler, prev>>

\* handler._set_environments(env); every get_secret it makes meets the same
\* login answer lo.
SetEnvironments ==
    /\ ret.op = "idle"
    /\ \E env \in ConfigMappings, lo \in LoginOutcomes :
        LET r == _set_environments(handler, os_environ, env, lo)
        IN /\ os_environ' = r.env
           /\ ret' = [Idle EXCEPT
                         !.op = "_set_environments",
                         !.cfg = env, !.lo = lo,
                         !.before = os_environ, !.out = r.out,
                         !.reads = r.reads, !.logins = r.logins,
                         !.calls = r.calls, !.at = r.at]
    /\ UNCHANGED <<handler, prev>>

\* handler.get_config_path(), the program started as sys.argv[0].
GetConfigPath ==
    /\ ret.op = "idle"
    /\ \E argv0 \in Argv0s, lo \in LoginOutcomes :
        LET r == get_config_path(handler, os_environ, argv0, lo)
        IN /\ os_environ' = r.env
           /\ ret' = [Idle EXCEPT
                         !.op = "get_config_path",
                         !.argv0 = argv0, !.lo = lo,
                         !.before = os_environ, !.out = r.out,
                         !.reads = r.reads, !.logins = r.logins,
                         !.calls = r.calls, !.at = r.at]
    /\ UNCHANGED <<handler, prev>>

\* The caller takes the result of the call that ended.
Resume ==
    /\ ret.op # "idle"
    /\ ret' = Idle
    /\ prev' = IF ret.op = "_set_environments" /\ ret.out.kind = "return"
               THEN [op |-> ret.op, cfg |-> ret.cfg, before |-> ret.before,
                     kind |-> ret.out.kind]
               ELSE NoPrev
    /\ UNCHANGED <<os_environ, handler>>

Next ==
    Construct \/ ReadPath \/ GetSecret \/ SetEnvironments \/ GetConfigPath \/ Resume

Spec == Init /\ [][Next]_vars

----------------------------------------------------------------------------
\* Vocabulary of the properties, stated on the inputs of the last call and
\* on the store, not on the operators above.

CredsIn(env) == {"role_id", "secret_id"} \subseteq DOMAIN env

Items(d) == {d[n] : n \in DOMAIN d}

Readable(ps) == \A i \in DOMAIN ps : ps[i] \in DOMAIN KV

PairwiseDisjoint(ps) ==
    \A i, j \in DOMAIN ps : i # j => keys(KV[ps[i]]) \cap keys(KV[ps[j]]) = {}

KeysBefore(ps, i) == UNION {keys(KV[ps[j]]) : j \in 1..(i - 1)}

\* d is the union of the bundles at ps: every item of every bundle, nothing
\* else, every key once.
IsUnion(d, ps) ==
    /\ Items(d) = UNION {Items(KV[ps[i]]) : i \in DOMAIN ps}
    /\ Len(d) = Cardinality(keys(d))

\* The i-th path is the first whose bundle shares a key with the bundles
\* fetched before it, all paths up to it being readable.
FirstShared(ps, i) ==
    /\ i \in DOMAIN ps
    /\ Readable(SubSeq(ps, 1, i))
    /\ PairwiseDisjoint(SubSeq(ps, 1, i - 1))
    /\ keys(KV[ps[i]]) \cap KeysBefore(ps, i) # {}

Shared(ps, i) == keys(KV[ps[i]]) \cap KeysBefore(ps, i)

\* The call met valid credentials in the environment and a login that
\* answered a non-empty token.
Authenticated == CredsIn(ret.before) /\ ret.lo = "token"

----------------------------------------------------------------------------
\* C1: for paths whose bundles have pairwise-disjoint key sets the merge never
\* fails: read_path returns exactly the union of the bundles, and get_secret
\* returns (True, the same union).  (The merge of read_path is observed with
\* environ=False, where nothing follows it.)
C1_MergeDisjointUnion ==
    ( /\ ret.op \in {"read_path", "get_secret"}
      /\ Authenticated
      /\ Readable(ret.path.items)
      /\ PairwiseDisjoint(ret.path.items) )
    => IF ret.op = "read_path"
       THEN ~ret.environ =>
                /\ ret.out.kind = "return"
                /\ IsUnion(ret.out.value, ret.path.items)
       ELSE /\ ret.out.kind = "return"
            /\ ret.out.value.ok
            /\ IsUnion(ret.out.value.dict, ret.path.items)

\* C1, the half about read_path alone.
C1_ReadPathUnion ==
    ( /\ ret.op = "read_path"
      /\ ~ret.environ
      /\ Authenticated
      /\ Readable(ret.path.items)
      /\ PairwiseDisjoint(ret.path.items) )
    => /\ ret.out.kind = "return"
       /\ IsUnion(ret.out.value, ret.path.items)

\* C2: when a bundle shares a key with the bundles fetched before it, the call
\* fails with a duplicate-keys error naming exactly the shared keys, and no
\* partially merged mapping is returned: read_path raises an error that names
\* them, get_secret returns (False, payload) that names them.
C2_DuplicateKeysNamed ==
    \A i \in DOMAIN ret.path.items :
        ( /\ ret.op \in {"read_path", "get_secret"}
          /\ Authenticated
          /\ FirstShared(ret.path.items, i) )
        => /\ ret.out.names = Shared(ret.path.items, i)
           /\ IF ret.op = "read_path" THEN ret.out.kind = "raise"
              ELSE /\ ret.out.kind = "return"
                   /\ ~ret.out.value.ok
                   /\ keys(ret.out.value.dict) = {"errors"}

\* C2, the half that holds: no partially merged mapping reaches the caller.
C2_NoPartialMerge ==
    \A i \in DOMAIN ret.path.items :
        ( /\ ret.op \in {"read_path", "get_secret"}
          /\ Authenticated
          /\ FirstShared(ret.path.items, i) )
        => \/ ret.out.kind = "raise"
           \/ /\ ret.op = "get_secret"
              /\ ~ret.out.value.ok
              /\ keys(ret.out.value.dict) = {"errors"}

\* C3: expanding a mapping whose first entry carries the VAULT_PATH_ marker
\* writes the keys of the referenced bundle to the environment, and the
\* marker key itself is never written.
C3_MarkerExpanded ==
    ( /\ ret.op = "_set_environments"
      /\ Authenticated
      /\ ret.cfg # <<>>
      /\ startswith(ret.cfg[1][1], "VAULT_PATH_")
      /\ ret.cfg[1][2].v \in DOMAIN KV
      /\ keys(KV[ret.cfg[1][2].v]) \cap DOMAIN ret.before = {}
      /\ \A n \in DOMAIN KV[ret.cfg[1][2].v] : KV[ret.cfg[1][2].v][n][2].t = "str" )
    => /\ \A n \in DOMAIN KV[ret.cfg[1][2].v] :
            LET item == KV[ret.cfg[1][2].v][n]
            IN item[1] \in DOMAIN os_environ /\ os_environ[item[1]] = item[2].v
       /\ ret.cfg[1][1] \notin DOMAIN os_environ

\* C4: read_path with environ=True never overwrites a variable that is already
\* set: when a key of the merged result is in the environment the call fails
\* and every variable keeps its value.
C4_ReadPathNoOverwrite ==
    ( /\ ret.op = "read_path"
      /\ ret.environ
      /\ Authenticated
      /\ Readable(ret.path.items)
      /\ PairwiseDisjoint(ret.path.items)
      /\ KeysBefore(ret.path.items, Len(ret.path.items) + 1) \cap DOMAIN ret.before # {} )
    => /\ ret.out.kind = "raise"
       /\ \A k \in DOMAIN ret.before : os_environ[k] = ret.before[k]

----------------------------------------------------------------------------
\* Vocabulary for the configuration mappings.

Plain(e) == ~startswith(e[1], "VAULT_PATH_")

\* The string a value is stored as.
Stringified(x) == IF x.t = "str" THEN x.v ELSE json_dumps(x)

\* Every entry of cfg is plain and its key is not set in env0.
AllPlainFresh(cfg, env0) ==
    \A n \in DOMAIN cfg : Plain(cfg[n]) /\ cfg[n][1] \notin DOMAIN env0

\* env0 plus exactly the entries of cfg.
Expected(env0, cfg) ==
    [k \in DOMAIN env0 \cup keys(cfg) |->
        IF k \in keys(cfg) THEN Stringified(getitem(cfg, k)) ELSE env0[k]]

\* C5: in _set_environments a plain entry whose key is already set makes the
\* call fail and leaves that key's value as it was before the call, whatever
\* the attempted value; when the loop reaches the entry (all entries before it
\* are plain and new) the failure is the duplicate error naming that key.
C5_DuplicatePlainEntryKept ==
    \A i \in DOMAIN ret.cfg :
        ( /\ ret.op = "_set_environments"
          /\ Plain(ret.cfg[i])
          /\ ret.cfg[i][1] \in DOMAIN ret.before )
        => /\ ret.out.kind = "raise"
           /\ os_environ[ret.cfg[i][1]] = ret.before[ret.cfg[i][1]]
           /\ AllPlainFresh(SubSeq(ret.cfg, 1, i - 1), ret.before)
                 => /\ ret.out.exc = "Exception"
                    /\ ret.out.names = {ret.cfg[i][1]}
                    /\ ret.at = i

\* C5 happens: the loop reached a plain entry with a structured value whose
\* key was set to another string, after writing an entry before it.
C5_Witness ==
    /\ ret.op = "_set_environments"
    /\ ret.out.kind = "raise"
    /\ ret.at = 2
    /\ Plain(ret.cfg[2])
    /\ ret.cfg[2][2].t = "dict"
    /\ ret.cfg[2][1] \in DOMAIN ret.before
    /\ ret.before[ret.cfg[2][1]] # Stringified(ret.cfg[2][2])
    /\ AllPlainFresh(SubSeq(ret.cfg, 1, 1), ret.before)

\* C6: materializing plain entries none of whose keys is set succeeds and
\* leaves the environment equal to the previous one plus exactly the entries
\* (each value in its string form); a second such mapping, disjoint from the
\* first, then yields the union of both and nothing else.
C6_PlainFreshUnion ==
    ( /\ ret.op = "_set_environments"
      /\ AllPlainFresh(ret.cfg, ret.before) )
    => /\ ret.out.kind = "return"
       /\ os_environ = Expected(ret.before, ret.cfg)
       /\ ( /\ prev.op = "_set_environments"
            /\ AllPlainFresh(prev.cfg, prev.before)
            /\ keys(prev.cfg) \cap keys(ret.cfg) = {} )
          => os_environ = Expected(Expected(prev.before, prev.cfg), ret.cfg)

\* C6 happens: two mappings were materialized one after the other, both
\* non-empty, plain and new, one of them holding a structured value.
C6_Witness ==
    /\ ret.op = "_set_environments"
    /\ prev.op = "_set_environments"
    /\ ret.cfg # <<>> /\ prev.cfg # <<>>
    /\ AllPlainFresh(prev.cfg, prev.before)
    /\ AllPlainFresh(ret.cfg, ret.before)
    /\ \E n \in DOMAIN ret.cfg : ret.cfg[n][2].t = "dict"
    /\ ret.out.kind = "return"

\* C7: get_secret never raises when a key is duplicated across the paths: it
\* returns (False, payload), the payload an error description naming the
\* duplicated keys and holding none of the secrets fetched so far.
C7_GetSecretReturnsFailure ==
    \A i \in DOMAIN ret.path.items :
        ( /\ ret.op = "get_secret"
          /\ Authenticated
          /\ FirstShared(ret.path.items, i) )
        => /\ ret.out.kind = "return"
           /\ ~ret.out.value.ok
           /\ keys(ret.out.value.dict) \cap KeysBefore(ret.path.items, i + 1) = {}
           /\ ret.out.names = Shared(ret.path.items, i)

C9_RejectedIffCredentialMissing ==
    ret.op \in {"read_path", "get_secret"}
    => ( (ret.out.kind = "raise" /\ ret.logins = 0)
         <=> (handler.role_id = None \/ handler.secret_id = None) )

\* C10: when _set_environments fails at an entry, no entry after it is
\* written and no further get_secret is made, and every entry before it stays
\* written with its value.
C10_AbortKeepsEarlierWrites ==
    ( /\ ret.op = "_set_environments"
      /\ ret.out.kind = "raise" )
    => /\ ret.at \in DOMAIN ret.cfg
       /\ ret.calls = Cardinality({j \in 1..ret.at : ~Plain(ret.cfg[j])})
       /\ \A j \in DOMAIN ret.cfg :
            /\ (j > ret.at /\ ret.cfg[j][1] \notin DOMAIN ret.before)
                  => ret.cfg[j][1] \notin DOMAIN os_environ
            /\ (j < ret.at /\ Plain(ret.cfg[j]))
                  => /\ ret.cfg[j][1] \in DOMAIN os_environ
                     /\ os_environ[ret.cfg[j][1]] = Stringified(ret.cfg[j][2])

\* C10 happens: the pass failed at its second entry, after writing the first,
\* with a third entry, new to the environment, still to come.
C10_Witness ==
    /\ ret.op = "_set_environments"
    /\ ret.out.kind = "raise"
    /\ ret.at = 2
    /\ Len(ret.cfg) = 3
    /\ Plain(ret.cfg[1])
    /\ ret.cfg[1][1] \notin DOMAIN ret.before
    /\ ret.cfg[1][1] \in DOMAIN os_environ
    /\ ret.cfg[3][1] \notin DOMAIN ret.before

----------------------------------------------------------------------------
\* Vocabulary for the later properties.

\* The entries of cfg the loop went through: all of them, or those up to the
\* entry at which it stopped.
Processed(r) == 1..(IF r.at = 0 THEN Len(r.cfg) ELSE r.at)

Markers(r) == {j \in Processed(r) : ~Plain(r.cfg[j])}

IsPrefix(r, ps) == Len(r) <= Len(ps) /\ \A i \in DOMAIN r : r[i] = ps[i]

\* The i-th path is the first the backend rejects or whose bundle shares a
\* key with the bundles before it.
FirstFailure(ps, i) ==
    /\ i \in DOMAIN ps
    /\ Readable(SubSeq(ps, 1, i - 1))
    /\ PairwiseDisjoint(SubSeq(ps, 1, i - 1))
    /\ (ps[i] \notin DOMAIN KV \/ Shared(ps, i) # {})

\* The merge of the call's paths succeeds.
Mergeable(ps) == Readable(ps) /\ PairwiseDisjoint(ps)

MergedKeys(ps) == KeysBefore(ps, Len(ps) + 1)

MergedItems(ps) == UNION {Items(KV[ps[i]]) : i \in DOMAIN ps}

ReservedNames == {"APPNAME", "DECONFPATH", "role_id", "secret_id"}

\* C11: when a marker entry resolves to a bundle holding a key that is already
\* set, _set_environments fails with the duplicate error naming that key and
\* the variable keeps its value.
C11_ResolvedDuplicateRejected ==
    \A i \in DOMAIN ret.cfg :
        ( /\ ret.op = "_set_environments"
          /\ Authenticated
          /\ AllPlainFresh(SubSeq(ret.cfg, 1, i - 1), ret.before)
          /\ ~Plain(ret.cfg[i])
          /\ ret.cfg[i][2].v \in DOMAIN KV
          /\ keys(KV[ret.cfg[i][2].v]) \cap DOMAIN ret.before # {} )
        => /\ ret.out.kind = "raise"
           /\ ret.out.exc = "Exception"
           /\ ret.out.names \cap keys(KV[ret.cfg[i][2].v]) \cap DOMAIN ret.before # {}
           /\ \A k \in DOMAIN ret.before : os_environ[k] = ret.before[k]

\* C11, the half that holds: no call of _set_environments changes the value
\* of a variable that was set before it.
C11_SetVariablesKept ==
    ret.op = "_set_environments"
    => \A k \in DOMAIN ret.before :
           k \in DOMAIN os_environ /\ os_environ[k] = ret.before[k]

\* C12: read_path with environ=True has no partial success: when it ends in
\* an error the environment is as it was before the call, and when it returns
\* every key of the merged result is set to its value.
C12_ReadPathAllOrNothing ==
    (ret.op = "read_path" /\ ret.environ)
    => /\ ret.out.kind = "raise" => os_environ = ret.before
       /\ ret.out.kind = "return"
             => \A n \in DOMAIN ret.out.value :
                   /\ ret.out.value[n][1] \in DOMAIN os_environ
                   /\ os_environ[ret.out.value[n][1]] = Stringified(ret.out.value[n][2])

\* C13: no materialization step fails because a value is not a string: the
\* value is stored in its serialized form, by a plain entry of
\* _set_environments and by read_path with environ=True alike.
C13_NonStringSerialized ==
    /\ ( /\ ret.op = "_set_environments"
         /\ AllPlainFresh(ret.cfg, ret.before) )
       => /\ ret.out.kind = "return"
          /\ \A n \in DOMAIN ret.cfg :
                os_environ[ret.cfg[n][1]] = Stringified(ret.cfg[n][2])
    /\ ( /\ ret.op = "read_path"
         /\ ret.environ
         /\ Authenticated
         /\ Mergeable(ret.path.items)
         /\ MergedKeys(ret.path.items) \cap DOMAIN ret.before = {} )
       => /\ ret.out.kind = "return"
          /\ \A it \in MergedItems(ret.path.items) :
                it[1] \in DOMAIN os_environ /\ os_environ[it[1]] = Stringified(it[2])

\* C14: when the login exchange of get_secret raises, get_secret raises the
\* documented ValueError, after one login exchange and without a secret read.
C14_GetSecretLoginFailure ==
    ( /\ ret.op = "get_secret"
      /\ CredsIn(ret.before)
      /\ ret.lo = "raise" )
    => /\ ret.out.kind = "raise"
       /\ ret.out.exc = "ValueError"
       /\ ret.logins = 1
       /\ ret.reads = <<>>

\* C15: expansion goes one level: when the bundle resolved for a marker entry
\* holds a key with the VAULT_PATH_ prefix, that key is written literally with
\* its value and nothing is fetched for it; _set_environments makes as many
\* get_secret calls as it processed marker entries.
C15_OneLevelExpansion ==
    ( /\ ret.op = "_set_environments"
      /\ Authenticated
      /\ Len(ret.cfg) = 1
      /\ ~Plain(ret.cfg[1])
      /\ ret.cfg[1][2].v \in DOMAIN KV
      /\ keys(KV[ret.cfg[1][2].v]) \cap DOMAIN ret.before = {}
      /\ \E it \in Items(KV[ret.cfg[1][2].v]) : ~Plain(it) )
    => /\ \A it \in Items(KV[ret.cfg[1][2].v]) :
             ~Plain(it) => /\ it[1] \in DOMAIN os_environ
                           /\ os_environ[it[1]] = Stringified(it[2])
       /\ ret.reads = <<ret.cfg[1][2].v>>
       /\ ret.calls = 1

\* C15, the half that holds: the get_secret calls of _set_environments are
\* as many as the marker entries it processed, each with at most one login.
C15_CallsEqualMarkers ==
    ret.op = "_set_environments"
    => /\ ret.calls = Cardinality(Markers(ret))
       /\ ret.logins <= ret.calls

C17_ConfigPathChosen ==
    ret.op = "get_config_path"
    => IF "DECONFPATH" \in DOMAIN ret.before
       THEN Authenticated
            => ret.reads # <<>> /\ ret.reads[1] = ret.before["DECONFPATH"]
       ELSE IF "env" \in DOMAIN ret.before
       THEN (Authenticated /\ ret.before["env"] = "dev")
            => /\ "DECONFPATH" \in DOMAIN os_environ
               /\ os_environ["DECONFPATH"] = "dataeng/config/DEV/ETL"
               /\ ret.reads = <<"dataeng/config/DEV/ETL">>
       ELSE /\ ret.out.kind = "raise"
            /\ ret.logins = 0
            /\ ret.reads = <<>>
            /\ \A k \in (DOMAIN ret.before \cup DOMAIN os_environ) \ {"APPNAME"} :
                  /\ k \in DOMAIN ret.before /\ k \in DOMAIN os_environ
                  /\ os_environ[k] = ret.before[k]

C19_ReservedNamesRejected ==
    ( /\ ret.op = "get_config_path"
      /\ Authenticated
      /\ "DECONFPATH" \in DOMAIN ret.before
      /\ ret.before["DECONFPATH"] \in DOMAIN KV
      /\ keys(KV[ret.before["DECONFPATH"]]) \cap ReservedNames # {} )
    => /\ ret.out.kind = "raise"
       /\ ret.out.exc = "Exception"
       /\ ret.out.names \cap ReservedNames # {}
       /\ ReservedNames \subseteq DOMAIN os_environ
       /\ \A k \in ReservedNames \cap DOMAIN ret.before : os_environ[k] = ret.before[k]

====
